---- MODULE Spec2Model ----
(***************************************************************************)
(* Genetic-algorithm engine of src/main.py: Individual, the three          *)
(* crossover and three mutation operators, tournament selection, the       *)
(* generational loop evolve_population and the driver run_experiment.      *)
(*                                                                         *)
(* Conventions.  Python positions are 0-based, TLA+ sequences 1-based: a   *)
(* genome is a sequence over 1..N_FIELDS of crop ids 0..N_CROPS-1, and     *)
(* Python position k is index k+1.  Random draws keep Python's values.     *)
(* Yields are kept in hundredths (1.72 -> 172) and the fitness score is    *)
(* kept as the exact numerator of ALPHA*ty/MAX_YIELD - BETA*tc/MAX_COST    *)
(* over the common denominator 10*MAX_YIELD*MAX_COST, so comparisons of    *)
(* fitness are the comparisons of the real numbers (floating-point         *)
(* rounding is not modelled).  A float is a record [nan, num]: num is the  *)
(* numerator, and nan marks the value 0/0 that numpy's division gives when *)
(* a normalisation constant is zero.                                       *)
(* The module-level tables and constants of the source are the value of    *)
(* the variable `problem`, which no step changes: the run is modelled for  *)
(* the source's tables (cut down to the bounds) and for the other problem  *)
(* definitions the specification's scenarios name.                         *)
(* Individuals are objects with identity: `heap` maps a reference          *)
(* (1..Len(heap)) to the object's fields, and every list of the program    *)
(* holds references.  Each Individual owns its genome array exclusively    *)
(* (every constructor call in the source is given a fresh array), so the   *)
(* array is kept inside the object's record.                               *)
(***************************************************************************)
EXTENDS Integers, Sequences, FiniteSets, TLC

VARIABLES
    problem,                \* the module-level constants: N_FIELDS, N_CROPS, CROP_COSTS, FIELD_YIELDS, ALPHA, BETA, MAX_YIELD, MAX_COST
    crossover,              \* run_experiment's argument: the crossover operator
    mutation,               \* run_experiment's argument: the mutation operator
    heap,                   \* the Individual objects, by reference
    population,             \* run_experiment / evolve_population: list of references
    new_population,         \* evolve_population: list of references
    candidates,             \* select_parents: the sorted sample (positions of population), kept by the selection harness
    parent1, parent2,       \* evolve_population locals (0 = unbound)
    child1, child2,         \* evolve_population locals (0 = unbound)
    draw,                   \* the random draw of the call under test, kept by the harnesses
    generation,             \* run_experiment: number of completed generations
    best_fitness_over_time, \* run_experiment: the trace
    best_individuals,       \* run_experiment: list of references
    best,                   \* run_experiment: best_individuals[-1] (0 = unbound)
    applied,                \* number of operator applications so far (bounds the run)
    error,                  \* "none" or the exception that ended the run
    pc                      \* position in the program

vars == <<problem, crossover, mutation, heap, population, new_population, candidates,
          parent1, parent2, child1, child2, draw, generation,
          best_fitness_over_time, best_individuals, best, applied, error, pc>>

----------------------------------------------------------------------------
(* Bounds of the model.                                                    *)

\* Number of fields used (the source has 10): the first N_FIELDS rows of FIELD_YIELDS.
N_FIELDS == 3
\* Number of crops used (the source has 6): the first N_CROPS crops.
N_CROPS == 2
\* Largest population size tried (the source runs 20).
MaxPop == 6
\* Number of generations of a run (the source runs 50).
GENERATIONS == 2
\* Number of initial populations tried per size.
MaxSeed == 1
\* Largest number of crossover/mutation applications in one run.
MaxApplied == 1
\* Number of generations of a run under scenario B (the scenario names 50).
ScenarioGenerations == 1

----------------------------------------------------------------------------
(* Program constants.                                                      *)

\* random.sample(population, 5)
TOURNAMENT_SIZE == 5
\* ALPHA, BETA = 0.6, 0.4, in tenths
ALPHA_TENTHS == 6
BETA_TENTHS == 4

CROP_COSTS == <<30, 45, 25, 50, 40, 35>>

FIELD_YIELDS ==
    << <<172, 413, 295, 347, 159, 488>>,
       <<234, 321, 187, 445, 276, 399>>,
       <<467, 198, 243, 388, 412, 134>>,
       <<356, 267, 421, 176, 291, 344>>,
       <<188, 455, 312, 234, 199, 401>>,
       <<277, 389, 145, 467, 218, 322>>,
       <<433, 212, 376, 154, 488, 265>>,
       <<311, 167, 444, 223, 355, 188>>,
       <<256, 422, 333, 199, 277, 466>>,
       <<145, 388, 212, 455, 301, 234>> >>

\* range(N_FIELDS) as 1-based positions, range(N_CROPS), and the genomes create_random_individual can draw
Fields == 1..problem.n_fields
Crops == 0..(problem.n_crops - 1)
Genomes == [Fields -> Crops]

RECURSIVE SeqSum(_)
SeqSum(s) == IF s = <<>> THEN 0 ELSE Head(s) + SeqSum(Tail(s))

MaxOf(S) == CHOOSE x \in S : \A y \in S : y <= x

\* np.max(FIELD_YIELDS, axis=1)[f]
RowMax(yields, f) == MaxOf({yields[f][c] : c \in DOMAIN yields[f]})

\* The module-level constants for given tables, weights and number of
\* generations: MAX_YIELD and MAX_COST are computed once, when the module is
\* loaded.
ProblemDefinition(costs, yields, alpha, beta, generations) ==
    [n_fields |-> Len(yields),
     n_crops |-> Len(costs),
     costs |-> costs,
     yields |-> yields,
     alpha |-> alpha,
     beta |-> beta,
     generations |-> generations,
     max_yield |-> SeqSum([f \in DOMAIN yields |-> RowMax(yields, f)]),
     max_cost |-> Len(yields) * MaxOf({costs[c] : c \in DOMAIN costs})]

\* The source's tables, cut down to the first n_fields fields and n_crops crops
SourceProblem(n_fields, n_crops) ==
    ProblemDefinition([c \in 1..n_crops |-> CROP_COSTS[c]],
                      [f \in 1..n_fields |-> [c \in 1..n_crops |-> FIELD_YIELDS[f][c]]],
                      ALPHA_TENTHS, BETA_TENTHS, GENERATIONS)

\* np.sum(np.max(FIELD_YIELDS, axis=1)), in hundredths
MAX_YIELD == problem.max_yield
\* N_FIELDS * np.max(CROP_COSTS)
MAX_COST == problem.max_cost

\* The float nan, and the float of a numerator
NaN == [nan |-> TRUE, num |-> 0]
Float(num) == [nan |-> FALSE, num |-> num]

\* a < b on floats: every comparison with nan is False
FloatLt(a, b) == ~a.nan /\ ~b.nan /\ a.num < b.num

----------------------------------------------------------------------------
(* Individual.                                                             *)

\* numpy integer-array indexing: an index -N_CROPS <= g < 0 counts from the end
WrapIndex(g) == IF g < 0 THEN g + problem.n_crops ELSE g

\* Length of the broadcast of np.arange(N_FIELDS) with the genome
BroadcastLen(genome) ==
    IF Len(genome) = 1 THEN problem.n_fields ELSE Len(genome)

\* Row and (wrapped) gene paired at position k of the broadcast
YieldRow(k) == IF problem.n_fields = 1 THEN 1 ELSE k
Gene(genome, k) == WrapIndex(genome[IF Len(genome) = 1 THEN 1 ELSE k])

\* The indexing of calculate_fitness raises IndexError: the genome's length
\* does not broadcast against N_FIELDS, or a gene is out of bounds for the
\* N_CROPS axis
RaisesIndexError(genome) ==
    \/ Len(genome) # problem.n_fields /\ Len(genome) # 1 /\ problem.n_fields # 1
    \/ \E k \in 1..Len(genome) :
          genome[k] < 0 - problem.n_crops \/ genome[k] >= problem.n_crops

\* calculate_fitness with the cost term added instead of subtracted
calculate_fitness_plus(genome) ==
    LET total_yield == SeqSum([k \in 1..BroadcastLen(genome) |->
                                  problem.yields[YieldRow(k)][Gene(genome, k) + 1]])
        total_cost == SeqSum([k \in 1..Len(genome) |->
                                  problem.costs[WrapIndex(genome[k]) + 1]])
        score == IF MAX_YIELD = 0 \/ MAX_COST = 0
                 THEN NaN
                 ELSE Float(problem.alpha * total_yield * MAX_COST
                            + problem.beta * total_cost * MAX_YIELD)
    IN  <<score, total_yield, total_cost>>

\* Individual.calculate_fitness: (score, total_yield, total_cost) of a genome
\* FIELD_YIELDS[np.arange(N_FIELDS), genome] pairs row k with gene k; numpy
\* broadcasts a length-1 index array against the other, and with N_FIELDS = 1
\* the single row against every gene.  A division by a zero normalisation
\* constant is 0/0 (the tables hold no negative entry), which numpy evaluates
\* to nan with a warning, and nan propagates through the score.
calculate_fitness(genome) ==
    LET total_yield == SeqSum([k \in 1..BroadcastLen(genome) |->
                                  problem.yields[YieldRow(k)][Gene(genome, k) + 1]])
        total_cost == SeqSum([k \in 1..Len(genome) |->
                                  problem.costs[WrapIndex(genome[k]) + 1]])
        score == IF MAX_YIELD = 0 \/ MAX_COST = 0
                 THEN NaN
                 ELSE Float(problem.alpha * total_yield * MAX_COST
                            - problem.beta * total_cost * MAX_YIELD)
    IN  <<score, total_yield, total_cost>>

\* Individual.__init__: the new object's fields
Individual(genome) ==
    LET r == calculate_fitness(genome)
    IN  [genome |-> genome, fitness |-> r[1], total_yield |-> r[2], total_cost |-> r[3]]

----------------------------------------------------------------------------
(* Operator library.  Every operator takes the heap, the references of its *)
(* inputs and its random draw, and returns the heap after the call         *)
(* together with the references it returns.                                *)

\* Individual(child1), Individual(child2): two new objects
NewPair(h, g1, g2) ==
    [heap |-> h \o <<Individual(g1), Individual(g2)>>,
     out |-> <<Len(h) + 1, Len(h) + 2>>]

\* Individual(genome): one new object
NewOne(h, g) ==
    [heap |-> Append(h, Individual(g)), out |-> <<Len(h) + 1>>]

\* point = np.random.randint(1, N_FIELDS)
SinglePointDraws == {<<point>> : point \in 1..(problem.n_fields - 1)}

single_point_crossover(h, p1, p2, d) ==
    LET point == d[1]
        g1 == h[p1].genome
        g2 == h[p2].genome
        c1 == [k \in Fields |-> IF k - 1 < point THEN g1[k] ELSE g2[k]]
        c2 == [k \in Fields |-> IF k - 1 < point THEN g2[k] ELSE g1[k]]
    IN  NewPair(h, c1, c2)

\* np.random.randint(1, N_FIELDS, size=2), before sorted()
TwoPointDraws ==
    {<<a, b>> : a \in 1..(problem.n_fields - 1), b \in 1..(problem.n_fields - 1)}

Min2(a, b) == IF a <= b THEN a ELSE b
Max2(a, b) == IF a <= b THEN b ELSE a

\* two-point crossover exchanging the inclusive range [p1, p2]
two_point_crossover_inclusive(h, p1, p2, d) ==
    LET lo == Min2(d[1], d[2])
        hi == Max2(d[1], d[2])
        g1 == h[p1].genome
        g2 == h[p2].genome
        c1 == [k \in Fields |-> IF lo <= k - 1 /\ k - 1 <= hi THEN g2[k] ELSE g1[k]]
        c2 == [k \in Fields |-> IF lo <= k - 1 /\ k - 1 <= hi THEN g1[k] ELSE g2[k]]
    IN  NewPair(h, c1, c2)

two_point_crossover(h, p1, p2, d) ==
    LET lo == Min2(d[1], d[2])
        hi == Max2(d[1], d[2])
        g1 == h[p1].genome
        g2 == h[p2].genome
        c1 == [k \in Fields |-> IF lo <= k - 1 /\ k - 1 < hi THEN g2[k] ELSE g1[k]]
        c2 == [k \in Fields |-> IF lo <= k - 1 /\ k - 1 < hi THEN g1[k] ELSE g2[k]]
    IN  NewPair(h, c1, c2)

\* mask = np.random.randint(0, 2, size=N_FIELDS).astype(bool)
UniformDraws == [Fields -> BOOLEAN]

\* uniform crossover whose second child uses the mask the same way as the first
uniform_crossover_same(h, p1, p2, d) ==
    LET g1 == h[p1].genome
        g2 == h[p2].genome
        c1 == [k \in Fields |-> IF d[k] THEN g1[k] ELSE g2[k]]
    IN  NewPair(h, c1, c1)

uniform_crossover(h, p1, p2, d) ==
    LET g1 == h[p1].genome
        g2 == h[p2].genome
        c1 == [k \in Fields |-> IF d[k] THEN g1[k] ELSE g2[k]]
        c2 == [k \in Fields |-> IF d[k] THEN g2[k] ELSE g1[k]]
    IN  NewPair(h, c1, c2)

\* pos = np.random.randint(N_FIELDS); np.random.randint(N_CROPS)
ResetDraws == {<<pos, crop>> : pos \in 0..(problem.n_fields - 1), crop \in Crops}

\* random reset drawing the crop id from 1..N_CROPS
random_reset_shifted(h, ind, d) ==
    LET genome == [h[ind].genome EXCEPT ![d[1] + 1] = d[2] + 1]
    IN  NewOne(h, genome)

random_reset(h, ind, d) ==
    LET genome == [h[ind].genome EXCEPT ![d[1] + 1] = d[2]]
    IN  NewOne(h, genome)

\* np.random.choice(N_FIELDS, 2, replace=False): an ordered pair of distinct positions
ChoiceDraws ==
    {<<i, j>> : i \in 0..(problem.n_fields - 1), j \in 0..(problem.n_fields - 1)} \
    {<<i, i>> : i \in 0..(problem.n_fields - 1)}

swap_mutation(h, ind, d) ==
    LET old == h[ind].genome
        genome == [old EXCEPT ![d[1] + 1] = old[d[2] + 1], ![d[2] + 1] = old[d[1] + 1]]
    IN  NewOne(h, genome)

\* inversion reversing genome[i:j], without position j
inversion_mutation_exclusive(h, ind, d) ==
    LET i == Min2(d[1], d[2])
        j == Max2(d[1], d[2])
        old == h[ind].genome
        genome == [k \in Fields |->
                     IF i <= k - 1 /\ k - 1 < j THEN old[(i + j - 1 - (k - 1)) + 1] ELSE old[k]]
    IN  NewOne(h, genome)

inversion_mutation(h, ind, d) ==
    LET i == Min2(d[1], d[2])
        j == Max2(d[1], d[2])
        old == h[ind].genome
        genome == [k \in Fields |->
                     IF i <= k - 1 /\ k - 1 <= j THEN old[(i + j - (k - 1)) + 1] ELSE old[k]]
    IN  NewOne(h, genome)

CrossoverOps == {"single_point_crossover", "two_point_crossover", "uniform_crossover"}
MutationOps == {"random_reset", "swap_mutation", "inversion_mutation"}

\* the draws the chosen crossover operator makes
CrossoverDraws(op) ==
    CASE op = "single_point_crossover" -> SinglePointDraws
      [] op = "two_point_crossover" -> TwoPointDraws
      [] op = "uniform_crossover" -> UniformDraws

\* crossover(parent1, parent2)
CallCrossover(op, h, p1, p2, d) ==
    CASE op = "single_point_crossover" -> single_point_crossover(h, p1, p2, d)
      [] op = "two_point_crossover" -> two_point_crossover(h, p1, p2, d)
      [] op = "uniform_crossover" -> uniform_crossover(h, p1, p2, d)

\* the draws the chosen mutation operator makes
MutationDraws(op) ==
    CASE op = "random_reset" -> ResetDraws
      [] op = "swap_mutation" -> ChoiceDraws
      [] op = "inversion_mutation" -> ChoiceDraws

\* a mutation operator that works on ind.genome itself instead of a copy
CallMutationInPlace(op, h, ind, d) ==
    LET r == CASE op = "random_reset" -> random_reset(h, ind, d)
               [] op = "swap_mutation" -> swap_mutation(h, ind, d)
               [] op = "inversion_mutation" -> inversion_mutation(h, ind, d)
        genome == r.heap[r.out[1]].genome
    IN  NewOne([h EXCEPT ![ind].genome = genome], genome)

\* mutation(child)
CallMutation(op, h, ind, d) ==
    CASE op = "random_reset" -> random_reset(h, ind, d)
      [] op = "swap_mutation" -> swap_mutation(h, ind, d)
      [] op = "inversion_mutation" -> inversion_mutation(h, ind, d)

----------------------------------------------------------------------------
(* Selection.                                                              *)

Range(s) == {s[i] : i \in DOMAIN s}

\* random.sample(population, 5): every ordered choice of 5 distinct positions,
\* for each population size n that has one
Samples ==
    [n \in 0..MaxPop |->
        {s \in [1..TOURNAMENT_SIZE -> 1..n] :
            \A a, b \in 1..TOURNAMENT_SIZE : a # b => s[a] # s[b]}]

\* one step of an ascending sort (reverse=True forgotten)
InsertAsc(h, pop, sorted, x) ==
    LET fx == h[pop[x]].fitness
        before == {i \in 1..Len(sorted) : FloatLt(fx, h[pop[sorted[i]]].fitness)}
        at == IF before = {} THEN Len(sorted) + 1
              ELSE CHOOSE i \in before : \A j \in before : i <= j
    IN  SubSeq(sorted, 1, at - 1) \o <<x>> \o SubSeq(sorted, at, Len(sorted))

\* one step of the stable descending sort: x goes after every element whose
\* fitness is >= its own
InsertDesc(h, pop, sorted, x) ==
    LET fx == h[pop[x]].fitness
        before == {i \in 1..Len(sorted) : FloatLt(h[pop[sorted[i]]].fitness, fx)}
        at == IF before = {} THEN Len(sorted) + 1
              ELSE CHOOSE i \in before : \A j \in before : i <= j
    IN  SubSeq(sorted, 1, at - 1) \o <<x>> \o SubSeq(sorted, at, Len(sorted))

RECURSIVE SortDesc(_, _, _, _)
\* candidates.sort(key=lambda x: x.fitness, reverse=True): stable
SortDesc(h, pop, sample, sorted) ==
    IF sample = <<>> THEN sorted
    ELSE SortDesc(h, pop, Tail(sample), InsertDesc(h, pop, sorted, Head(sample)))

\* select_parents for one sample: candidates after the sort
select_parents(h, pop, sample) == SortDesc(h, pop, sample, <<>>)

\* select_parents returning the two least fit of the sample
ParentPairsLeast(h, pop) ==
    LET n == Len(pop)
        F == [i \in 1..n |-> h[pop[i]].fitness]
        Bottom(S) == {a \in S : \A c \in S : ~FloatLt(F[c], F[a])}
        Sampled == {S \in SUBSET (1..n) : Cardinality(S) = TOURNAMENT_SIZE}
    IN  UNION {UNION {{<<pop[a], pop[b]>> : b \in Bottom(S \ {a})} : a \in Bottom(S)} : S \in Sampled}

\* every (parent1, parent2) = (candidates[0], candidates[1]) that select_parents can
\* return, over all samples.  The sort is stable and every order of a sample is
\* drawn, so within a sampled set S of positions candidates[0] is any member of
\* greatest fitness and candidates[1] any member of greatest fitness among the rest
\* (SelectionOutcomes checks this against select_parents sample by sample).
ParentPairs(h, pop) ==
    LET n == Len(pop)
        F == [i \in 1..n |-> h[pop[i]].fitness]
        Top(S) == {a \in S : \A c \in S : ~FloatLt(F[a], F[c])}
        Sampled == {S \in SUBSET (1..n) : Cardinality(S) = TOURNAMENT_SIZE}
    IN  UNION {UNION {{<<pop[a], pop[b]>> : b \in Top(S \ {a})} : a \in Top(S)} : S \in Sampled}

----------------------------------------------------------------------------
(* Object lifetime.  An object no list refers to is unreachable; it is     *)
(* dropped and the remaining ones are renumbered in order of their first   *)
(* occurrence in the lists.                                                *)

RECURSIVE FirstOccurrences(_, _)
FirstOccurrences(s, acc) ==
    IF s = <<>> THEN acc
    ELSE IF Head(s) \in Range(acc) THEN FirstOccurrences(Tail(s), acc)
    ELSE FirstOccurrences(Tail(s), Append(acc, Head(s)))

IndexOf(s, x) == CHOOSE i \in 1..Len(s) : s[i] = x

Reachable(h, roots) ==
    LET order == FirstOccurrences(roots, <<>>)
    IN  [heap |-> [k \in 1..Len(order) |-> h[order[k]]],
         ref |-> [r \in Range(order) |-> IndexOf(order, r)]]

Rename(ref, s) == [i \in 1..Len(s) |-> ref[s[i]]]

----------------------------------------------------------------------------
(* run_experiment and evolve_population.                                   *)

\* the genome with number k, its genes being the base-N_CROPS digits of k
GenomeNumber(k) ==
    [f \in Fields |-> (k \div (problem.n_crops ^ (f - 1))) % problem.n_crops]

\* create_random_individual for each member: the initial populations tried
InitialGenome(seed, i) ==
    GenomeNumber((seed * (i - 1)) % (problem.n_crops ^ problem.n_fields))

Init ==
    /\ problem = SourceProblem(N_FIELDS, N_CROPS)
    /\ crossover \in CrossoverOps
    /\ mutation \in MutationOps
    /\ \E n \in 0..MaxPop, seed \in 1..MaxSeed :
          /\ heap = [i \in 1..n |-> Individual(InitialGenome(seed, i))]
          /\ population = [i \in 1..n |-> i]
    /\ new_population = <<>>
    /\ candidates = <<>>
    /\ parent1 = 0 /\ parent2 = 0 /\ child1 = 0 /\ child2 = 0
    /\ draw = <<>>
    /\ generation = 0
    /\ best_fitness_over_time = <<>>
    /\ best_individuals = <<>>
    /\ best = 0
    /\ applied = 0
    /\ error = "none"
    /\ pc = "while"

\* while len(new_population) < len(population): parent1, parent2 = select_parents(population)
SelectParents ==
    /\ pc = "while"
    /\ Len(new_population) < Len(population)
    /\ Len(population) >= TOURNAMENT_SIZE
    /\ \E pair \in ParentPairs(heap, population) :
          /\ parent1' = pair[1]
          /\ parent2' = pair[2]
    /\ pc' = "crossover"
    /\ UNCHANGED <<problem, candidates, crossover, mutation, heap, population, new_population, child1, child2,
                   draw, generation, best_fitness_over_time, best_individuals, best,
                   applied, error>>

\* random.sample raises ValueError when the population has fewer than 5 members
SelectParentsFails ==
    /\ pc = "while"
    /\ Len(new_population) < Len(population)
    /\ Len(population) < TOURNAMENT_SIZE
    /\ error' = "ValueError: Sample larger than population"
    /\ pc' = "failed"
    /\ UNCHANGED <<problem, candidates, crossover, mutation, heap, population, new_population,
                   parent1, parent2, child1, child2, draw, generation,
                   best_fitness_over_time, best_individuals, best, applied>>

\* if random.random() < CROSSOVER_PROBABILITY: child1, child2 = crossover(parent1, parent2)
Crossover ==
    /\ pc = "crossover"
    /\ applied < MaxApplied
    /\ \E d \in CrossoverDraws(crossover) :
          LET r == CallCrossover(crossover, heap, parent1, parent2, d)
          IN  /\ heap' = r.heap
              /\ child1' = r.out[1]
              /\ child2' = r.out[2]
    /\ applied' = applied + 1
    /\ pc' = "mutate1"
    /\ UNCHANGED <<problem, candidates, crossover, mutation, population, new_population, parent1, parent2,
                   draw, generation, best_fitness_over_time, best_individuals, best, error>>

\* else: child1, child2 = parent1, parent2
NoCrossover ==
    /\ pc = "crossover"
    /\ child1' = parent1
    /\ child2' = parent2
    /\ pc' = "mutate1"
    /\ UNCHANGED <<problem, candidates, crossover, mutation, heap, population, new_population, parent1, parent2,
                   draw, generation, best_fitness_over_time, best_individuals, best,
                   applied, error>>

\* if random.random() < MUTATION_PROBABILITY: child1 = mutation(child1)
Mutate1 ==
    /\ pc = "mutate1"
    /\ applied < MaxApplied
    /\ \E d \in MutationDraws(mutation) :
          LET r == CallMutation(mutation, heap, child1, d)
          IN  /\ heap' = r.heap
              /\ child1' = r.out[1]
    /\ applied' = applied + 1
    /\ pc' = "mutate2"
    /\ UNCHANGED <<problem, candidates, crossover, mutation, population, new_population, parent1,
                   parent2, child2, draw, generation, best_fitness_over_time,
                   best_individuals, best, error>>

\* the first mutation test fails: child1 stays
NoMutate1 ==
    /\ pc = "mutate1"
    /\ pc' = "mutate2"
    /\ UNCHANGED <<problem, candidates, crossover, mutation, heap, population, new_population,
                   parent1, parent2, child1, child2, draw, generation,
                   best_fitness_over_time, best_individuals, best, applied, error>>

\* if random.random() < MUTATION_PROBABILITY: child2 = mutation(child2)
Mutate2 ==
    /\ pc = "mutate2"
    /\ applied < MaxApplied
    /\ \E d \in MutationDraws(mutation) :
          LET r == CallMutation(mutation, heap, child2, d)
          IN  /\ heap' = r.heap
              /\ child2' = r.out[1]
    /\ applied' = applied + 1
    /\ pc' = "extend"
    /\ UNCHANGED <<problem, candidates, crossover, mutation, population, new_population, parent1,
                   parent2, child1, draw, generation, best_fitness_over_time,
                   best_individuals, best, error>>

\* the second mutation test fails: child2 stays
NoMutate2 ==
    /\ pc = "mutate2"
    /\ pc' = "extend"
    /\ UNCHANGED <<problem, candidates, crossover, mutation, heap, population, new_population,
                   parent1, parent2, child1, child2, draw, generation,
                   best_fitness_over_time, best_individuals, best, applied, error>>

\* new_population.extend([child1, child2]); the locals are dead until the next
\* iteration rebinds them
Extend ==
    /\ pc = "extend"
    /\ LET grown == new_population \o <<child1, child2>>
           live == Reachable(heap, population \o grown \o best_individuals)
       IN  /\ heap' = live.heap
           /\ population' = Rename(live.ref, population)
           /\ new_population' = Rename(live.ref, grown)
           /\ best_individuals' = Rename(live.ref, best_individuals)
    /\ parent1' = 0 /\ parent2' = 0 /\ child1' = 0 /\ child2' = 0
    /\ pc' = "while"
    /\ UNCHANGED <<problem, candidates, crossover, mutation, draw, generation,
                   best_fitness_over_time, best, applied, error>>

\* population[0] taken as the best
FirstMember(h, pop) == pop[1]

\* max(population, key=lambda ind: ind.fitness): the first member of greatest fitness
MaxByFitness(h, pop) ==
    LET top == {i \in 1..Len(pop) :
                  \A j \in 1..Len(pop) : ~FloatLt(h[pop[i]].fitness, h[pop[j]].fitness)}
    IN  pop[CHOOSE i \in top : \A j \in top : i <= j]

\* evolve_population returning new_population whole
ReturnedWhole(new_pop, pop) == new_pop

\* the value evolve_population returns: new_population[:len(population)]
Returned(new_pop, pop) == SubSeq(new_pop, 1, Len(pop))

\* the while loop ends; population = evolve_population(...); the best of the new
\* population is recorded; the next generation starts or the loop of run_experiment ends
EndGeneration ==
    /\ pc = "while"
    /\ ~(Len(new_population) < Len(population))
    /\ Len(population) > 0
    /\ LET returned == Returned(new_population, population)
           best_individual == MaxByFitness(heap, returned)
           recorded == Append(best_individuals, best_individual)
           live == Reachable(heap, returned \o recorded)
       IN  /\ heap' = live.heap
           /\ population' = Rename(live.ref, returned)
           /\ best_individuals' = Rename(live.ref, recorded)
           /\ best_fitness_over_time' =
                 Append(best_fitness_over_time, heap[best_individual].fitness)
    /\ new_population' = <<>>
    /\ generation' = generation + 1
    /\ pc' = IF generation + 1 < problem.generations THEN "while" ELSE "report"
    /\ UNCHANGED <<problem, candidates, crossover, mutation, parent1, parent2, child1, child2,
                   draw, best, applied, error>>

\* an empty population: the loop body never runs, evolve_population returns [],
\* and max() of the empty list raises ValueError
EndGenerationEmpty ==
    /\ pc = "while"
    /\ ~(Len(new_population) < Len(population))
    /\ Len(population) = 0
    /\ population' = Returned(new_population, population)
    /\ error' = "ValueError: max() arg is an empty sequence"
    /\ pc' = "failed"
    /\ UNCHANGED <<problem, candidates, crossover, mutation, heap, new_population, parent1, parent2,
                   child1, child2, draw, generation, best_fitness_over_time,
                   best_individuals, best, applied>>

\* best = best_individuals[-1], and the report
Report ==
    /\ pc = "report"
    /\ best' = best_individuals[Len(best_individuals)]
    /\ pc' = "done"
    /\ UNCHANGED <<problem, candidates, crossover, mutation, heap, population, new_population,
                   parent1, parent2, child1, child2, draw, generation,
                   best_fitness_over_time, best_individuals, applied, error>>

Next ==
    \/ SelectParents
    \/ SelectParentsFails
    \/ Crossover
    \/ NoCrossover
    \/ Mutate1
    \/ NoMutate1
    \/ Mutate2
    \/ NoMutate2
    \/ Extend
    \/ EndGeneration
    \/ EndGenerationEmpty
    \/ Report

Spec == Init /\ [][Next]_vars


----------------------------------------------------------------------------
(* Operator harness: one call of a crossover operator on two arbitrary     *)
(* parents, or of a mutation operator on one arbitrary individual.         *)

Idle ==
    /\ new_population = <<>>
    /\ candidates = <<>>
    /\ child1 = 0 /\ child2 = 0
    /\ draw = <<>>
    /\ generation = 0
    /\ best_fitness_over_time = <<>>
    /\ best_individuals = <<>>
    /\ best = 0
    /\ applied = 0
    /\ error = "none"

InitOps ==
    /\ problem = SourceProblem(N_FIELDS, N_CROPS)
    /\ \/ /\ crossover \in CrossoverOps
          /\ mutation = "none"
          /\ \E g1 \in Genomes, g2 \in Genomes : heap = <<Individual(g1), Individual(g2)>>
          /\ parent1 = 1 /\ parent2 = 2
       \/ /\ crossover = "none"
          /\ mutation \in MutationOps
          /\ \E g \in Genomes : heap = <<Individual(g)>>
          /\ parent1 = 1 /\ parent2 = 0
    /\ population = <<>>
    /\ Idle
    /\ pc = "call_op"

\* child1, child2 = crossover(parent1, parent2)
CallCrossoverOp ==
    /\ pc = "call_op"
    /\ crossover # "none"
    /\ \E d \in CrossoverDraws(crossover) :
          LET r == CallCrossover(crossover, heap, parent1, parent2, d)
          IN  /\ heap' = r.heap
              /\ child1' = r.out[1]
              /\ child2' = r.out[2]
              /\ draw' = d
    /\ pc' = "op_returned"
    /\ UNCHANGED <<problem, candidates, crossover, mutation, population, new_population, parent1,
                   parent2, generation, best_fitness_over_time, best_individuals, best,
                   applied, error>>

\* child1 = mutation(parent1)
CallMutationOp ==
    /\ pc = "call_op"
    /\ mutation # "none"
    /\ \E d \in MutationDraws(mutation) :
          LET r == CallMutation(mutation, heap, parent1, d)
          IN  /\ heap' = r.heap
              /\ child1' = r.out[1]
              /\ draw' = d
    /\ pc' = "op_returned"
    /\ UNCHANGED <<problem, candidates, crossover, mutation, population, new_population, parent1,
                   parent2, child2, generation, best_fitness_over_time, best_individuals,
                   best, applied, error>>

NextOps ==
    \/ CallCrossoverOp
    \/ CallMutationOp

SpecOps == InitOps /\ [][NextOps]_vars

----------------------------------------------------------------------------
(* Selection harness: one call of select_parents on a population of 5 or   *)
(* more members, some of equal fitness, some positions holding the same    *)
(* object.                                                                 *)

InitSelect ==
    /\ problem = SourceProblem(N_FIELDS, N_CROPS)
    /\ crossover = "none"
    /\ mutation = "none"
    /\ \E n \in TOURNAMENT_SIZE..MaxPop, seed \in 0..MaxSeed, objects \in 2..MaxPop :
          /\ objects <= n
          /\ heap = [i \in 1..objects |-> Individual(InitialGenome(seed, i))]
          /\ population = [i \in 1..n |-> ((i - 1) % objects) + 1]
    /\ parent1 = 0 /\ parent2 = 0
    /\ Idle
    /\ pc = "call_select"

\* parent1, parent2 = select_parents(population)
CallSelectParents ==
    /\ pc = "call_select"
    /\ \E sample \in Samples[Len(population)] :
          LET sorted == select_parents(heap, population, sample)
          IN  /\ draw' = sample
              /\ candidates' = sorted
              /\ parent1' = population[sorted[1]]
              /\ parent2' = population[sorted[2]]
    /\ pc' = "select_returned"
    /\ UNCHANGED <<problem, crossover, mutation, heap, population, new_population, child1, child2,
                   generation, best_fitness_over_time, best_individuals, best, applied,
                   error>>

NextSelect == CallSelectParents

SpecSelect == InitSelect /\ [][NextSelect]_vars

\* the outcomes SelectParents uses are those of select_parents over all samples
SelectionOutcomes ==
    pc = "call_select" =>
        ParentPairs(heap, population) =
            {<<population[c[1]], population[c[2]]>> :
                c \in {select_parents(heap, population, sample) :
                         sample \in Samples[Len(population)]}}

----------------------------------------------------------------------------
(* run_experiment under the problem definition of the specification's      *)
(* scenario B: two fields, two crops, CROP_COSTS = [0, 0],                 *)
(* FIELD_YIELDS = [[1, 0], [0, 1]], ALPHA = 1, BETA = 0.  MAX_COST is      *)
(* 2 * 0 = 0 there, so norm_cost is 0/0.  Every fitness being nan, the     *)
(* sort of select_parents leaves the sample in its drawn order and any two *)
(* members can be the parents.                                             *)

ScenarioB ==
    ProblemDefinition(<<0, 0>>, << <<100, 0>>, <<0, 100>> >>, 10, 0, ScenarioGenerations)

\* The operator pairs tried under scenario B: each operator in one pair
ScenarioPairs ==
    {<<"single_point_crossover", "random_reset">>,
     <<"two_point_crossover", "swap_mutation">>,
     <<"uniform_crossover", "inversion_mutation">>}

InitB ==
    /\ problem = ScenarioB
    /\ \E pair \in ScenarioPairs : crossover = pair[1] /\ mutation = pair[2]
    /\ \E seed \in 1..MaxSeed :
          /\ heap = [i \in 1..TOURNAMENT_SIZE |-> Individual(InitialGenome(seed, i))]
          /\ population = [i \in 1..TOURNAMENT_SIZE |-> i]
    /\ parent1 = 0 /\ parent2 = 0
    /\ Idle
    /\ pc = "while"

NextB ==
    \/ SelectParents
    \/ Crossover
    \/ NoCrossover
    \/ Mutate1
    \/ NoMutate1
    \/ Mutate2
    \/ NoMutate2
    \/ Extend
    \/ EndGeneration
    \/ Report

SpecB == InitB /\ [][NextB]_vars

----------------------------------------------------------------------------
(* Operator harness over field counts: one call of one operator under the  *)
(* source's tables cut down to 1, 2, ..., N_FIELDS fields.  With one field *)
(* np.random.randint(1, N_FIELDS) has an empty range and                   *)
(* np.random.choice(N_FIELDS, 2, replace=False) asks for more than there   *)
(* is: both raise ValueError before the operator touches a genome.         *)

InitFields ==
    /\ \E n_fields \in 1..N_FIELDS : problem = SourceProblem(n_fields, N_CROPS)
    /\ \/ /\ crossover \in CrossoverOps
          /\ mutation = "none"
          /\ \E g1 \in Genomes, g2 \in Genomes : heap = <<Individual(g1), Individual(g2)>>
          /\ parent1 = 1 /\ parent2 = 2
       \/ /\ crossover = "none"
          /\ mutation \in MutationOps
          /\ \E g \in Genomes : heap = <<Individual(g)>>
          /\ parent1 = 1 /\ parent2 = 0
    /\ population = <<>>
    /\ Idle
    /\ pc = "call_op"

\* crossover(parent1, parent2) raises in its draw of the cut point(s)
CallCrossoverOpRaises ==
    /\ pc = "call_op"
    /\ crossover # "none"
    /\ CrossoverDraws(crossover) = {}
    /\ error' = "ValueError"
    /\ pc' = "op_raised"
    /\ UNCHANGED <<problem, candidates, crossover, mutation, heap, population, new_population,
                   parent1, parent2, child1, child2, draw, generation,
                   best_fitness_over_time, best_individuals, best, applied>>

\* mutation(parent1) raises in its draw of the two positions
CallMutationOpRaises ==
    /\ pc = "call_op"
    /\ mutation # "none"
    /\ MutationDraws(mutation) = {}
    /\ error' = "ValueError"
    /\ pc' = "op_raised"
    /\ UNCHANGED <<problem, candidates, crossover, mutation, heap, population, new_population,
                   parent1, parent2, child1, child2, draw, generation,
                   best_fitness_over_time, best_individuals, best, applied>>

NextFields ==
    \/ CallCrossoverOp
    \/ CallMutationOp
    \/ CallCrossoverOpRaises
    \/ CallMutationOpRaises

SpecFields == InitFields /\ [][NextFields]_vars

----------------------------------------------------------------------------
(* Constructor harness: one call Individual(genome) on an integer array of *)
(* any length up to N_FIELDS + 1 whose entries run from one below the      *)
(* lowest index numpy accepts to one above the highest.                    *)

\* The arrays handed to the constructor
ArgumentGenomes ==
    UNION {[1..len -> (0 - problem.n_crops - 1)..problem.n_crops] :
              len \in 0..(problem.n_fields + 1)}

InitNew ==
    /\ problem = SourceProblem(N_FIELDS, N_CROPS)
    /\ crossover = "none"
    /\ mutation = "none"
    /\ heap = <<>>
    /\ population = <<>>
    /\ new_population = <<>>
    /\ candidates = <<>>
    /\ parent1 = 0 /\ parent2 = 0
    /\ child1 = 0 /\ child2 = 0
    /\ draw \in ArgumentGenomes
    /\ generation = 0
    /\ best_fitness_over_time = <<>>
    /\ best_individuals = <<>>
    /\ best = 0
    /\ applied = 0
    /\ error = "none"
    /\ pc = "call_new"

\* child1 = Individual(draw): __init__ stores the genome and calculate_fitness returns
CallIndividual ==
    /\ pc = "call_new"
    /\ ~RaisesIndexError(draw)
    /\ heap' = <<Individual(draw)>>
    /\ child1' = 1
    /\ pc' = "new_returned"
    /\ UNCHANGED <<problem, candidates, crossover, mutation, population, new_population, parent1,
                   parent2, child2, draw, generation, best_fitness_over_time,
                   best_individuals, best, applied, error>>

\* Individual(draw): the indexing in calculate_fitness raises, no object is returned
CallIndividualRaises ==
    /\ pc = "call_new"
    /\ RaisesIndexError(draw)
    /\ error' = "IndexError"
    /\ pc' = "new_raised"
    /\ UNCHANGED <<problem, candidates, crossover, mutation, heap, population, new_population,
                   parent1, parent2, child1, child2, draw, generation,
                   best_fitness_over_time, best_individuals, best, applied>>

NextNew == CallIndividual \/ CallIndividualRaises

SpecNew == InitNew /\ [][NextNew]_vars

----------------------------------------------------------------------------
(* Properties.                                                             *)

\* the objects a list of references holds, position by position
Deref(h, refs) == [i \in 1..Len(refs) |-> h[refs[i]]]

\* the fitness values present in a population
PopFitness(h, pop) == {h[pop[i]].fitness.num : i \in 1..Len(pop)}

\* number of positions of genome g that carry crop c
CountOf(g, c) == Cardinality({k \in Fields : g[k] = c})

\* the step that ends a call of evolve_population in run_experiment
GenerationEnds == pc = "while" /\ generation' = generation + 1

\* C1: evolve_population returns a population of exactly the size of its input,
\* for every operator pair and every draw; with an odd size the loop has built one
\* member more and the second child of the last pair is dropped.  Hence the
\* population of run_experiment has the same size at every generation boundary.
C1_PopulationSizeKept ==
    [][/\ Len(population') = Len(population)
       /\ GenerationEnds =>
             /\ Len(new_population) = Len(population) + (Len(population) % 2)
             /\ Deref(heap', population') =
                   Deref(heap, SubSeq(new_population, 1, Len(population)))]_vars

C1_Witness ==
    /\ pc = "done"
    /\ Len(population) = TOURNAMENT_SIZE
    /\ Len(population) % 2 = 1
    /\ applied > 0

\* C2: the trace grows by exactly one entry per call of evolve_population, that
\* entry being the greatest fitness in the population the call returned (the
\* initial population is never recorded); when the run is done the trace has
\* GENERATIONS entries and the reported best is a member of the final population
\* of greatest fitness, its fitness being the last trace entry.
C2_TraceAndBest ==
    [][/\ IF generation' = generation + 1
          THEN /\ best_fitness_over_time' =
                     Append(best_fitness_over_time, Float(MaxOf(PopFitness(heap', population'))))
               /\ Len(best_fitness_over_time') = generation'
          ELSE /\ best_fitness_over_time' = best_fitness_over_time
               /\ generation' = generation
       /\ pc' = "done" =>
             /\ Len(best_fitness_over_time') = GENERATIONS
             /\ best' \in Range(population')
             /\ heap'[best'].fitness = Float(MaxOf(PopFitness(heap', population')))
             /\ heap'[best'].fitness = best_fitness_over_time'[GENERATIONS]]_vars

\* a finished run whose reported best is worse than the best of the first generation
C2_Witness ==
    /\ pc = "done"
    /\ Len(best_fitness_over_time) = GENERATIONS
    /\ FloatLt(heap[best].fitness, best_fitness_over_time[1])

\* C3: every Individual carries total_yield, total_cost and fitness computed from
\* its current genome, so Individuals of equal genome carry equal values.
C3_CachedFitness ==
    /\ Range(population) \cup Range(new_population) \subseteq DOMAIN heap
    /\ \A r \in DOMAIN heap :
          LET g == heap[r].genome
              ty == SeqSum([f \in Fields |-> FIELD_YIELDS[f][g[f] + 1]])
              tc == SeqSum([f \in Fields |-> CROP_COSTS[g[f] + 1]])
          IN  /\ heap[r].total_yield = ty
              /\ heap[r].total_cost = tc
              /\ heap[r].fitness =
                    Float(ALPHA_TENTHS * ty * MAX_COST - BETA_TENTHS * tc * MAX_YIELD)
    /\ \A r1, r2 \in DOMAIN heap :
          heap[r1].genome = heap[r2].genome => heap[r1] = heap[r2]

\* after a generation with an operator applied, two different objects of the
\* population have the same genome
C3_Witness ==
    /\ generation >= 1
    /\ applied >= 1
    /\ \E i, j \in 1..Len(population) :
          /\ population[i] # population[j]
          /\ heap[population[i]].genome = heap[population[j]].genome

\* C4: the children of uniform_crossover are complementary: child1 carries
\* parent1's gene exactly where the mask is true, child2 the other parent's gene
\* at every position; both have N_FIELDS genes.
C4_UniformComplementary ==
    (pc = "op_returned" /\ crossover = "uniform_crossover") =>
        LET g1 == heap[parent1].genome
            g2 == heap[parent2].genome
            c1 == heap[child1].genome
            c2 == heap[child2].genome
        IN  /\ DOMAIN c1 = Fields /\ DOMAIN c2 = Fields
            /\ \A k \in Fields :
                  IF draw[k] THEN c1[k] = g1[k] /\ c2[k] = g2[k]
                  ELSE c1[k] = g2[k] /\ c2[k] = g1[k]

\* parents that differ everywhere, and a mask that mixes them
C4_Witness ==
    /\ pc = "op_returned"
    /\ crossover = "uniform_crossover"
    /\ \A k \in Fields : heap[parent1].genome[k] # heap[parent2].genome[k]
    /\ heap[child1].genome # heap[parent1].genome
    /\ heap[child1].genome # heap[parent2].genome

\* C5: single-point crossover with cut c in 1..N_FIELDS-1 gives child1 =
\* parent1[0..c) + parent2[c..n) and child2 the complement; two-point crossover
\* with sorted cuts p1 <= p2 gives each child its own parent's genes except on
\* [p1, p2), where it carries the other parent's.  At every position the two
\* children carry the two parents' genes of that position, one each, and
\* position 0 is never exchanged.
C5_PointCrossovers ==
    (pc = "op_returned" /\ crossover \in {"single_point_crossover", "two_point_crossover"}) =>
        LET g1 == heap[parent1].genome
            g2 == heap[parent2].genome
            c1 == heap[child1].genome
            c2 == heap[child2].genome
            lo == IF crossover = "single_point_crossover" THEN draw[1]
                  ELSE Min2(draw[1], draw[2])
            hi == IF crossover = "single_point_crossover" THEN N_FIELDS
                  ELSE Max2(draw[1], draw[2])
        IN  /\ DOMAIN c1 = Fields /\ DOMAIN c2 = Fields
            /\ 1 <= lo /\ lo <= hi
            /\ crossover = "single_point_crossover" => lo <= N_FIELDS - 1
            /\ \A k \in Fields :
                  IF lo <= k - 1 /\ k - 1 < hi
                  THEN c1[k] = g2[k] /\ c2[k] = g1[k]
                  ELSE c1[k] = g1[k] /\ c2[k] = g2[k]
            /\ c1[1] = g1[1] /\ c2[1] = g2[1]

\* a two-point crossover that exchanges a segment ending before the last position
C5_Witness ==
    /\ pc = "op_returned"
    /\ crossover = "two_point_crossover"
    /\ draw[1] # draw[2]
    /\ heap[child1].genome # heap[parent1].genome
    /\ heap[parent1].genome[N_FIELDS] # heap[parent2].genome[N_FIELDS]

\* C6: swap_mutation exchanges the genes of two distinct positions;
\* inversion_mutation reverses the inclusive range [i, j], i < j; every other
\* position is unchanged, the genome keeps its length and its multiset of genes.
C6_SwapAndInversion ==
    (pc = "op_returned" /\ mutation \in {"swap_mutation", "inversion_mutation"}) =>
        LET old == heap[parent1].genome
            new == heap[child1].genome
            i == Min2(draw[1], draw[2])
            j == Max2(draw[1], draw[2])
        IN  /\ 0 <= i /\ i < j /\ j <= N_FIELDS - 1
            /\ DOMAIN new = Fields
            /\ \A c \in Crops : CountOf(new, c) = CountOf(old, c)
            /\ \A k \in 0..(N_FIELDS - 1) :
                  IF mutation = "swap_mutation"
                  THEN new[k + 1] = (IF k = i THEN old[j + 1]
                                     ELSE IF k = j THEN old[i + 1] ELSE old[k + 1])
                  ELSE new[k + 1] = (IF i <= k /\ k <= j THEN old[(i + j - k) + 1]
                                     ELSE old[k + 1])

\* an inversion of a range of three positions whose ends differ
C6_Witness ==
    /\ pc = "op_returned"
    /\ mutation = "inversion_mutation"
    /\ Max2(draw[1], draw[2]) - Min2(draw[1], draw[2]) = 2
    /\ heap[child1].genome # heap[parent1].genome

\* C7: random_reset returns a genome that differs from its input at most at the
\* position drawn, where it carries the crop id drawn, a value in 0..N_CROPS-1
\* (no position differs when that is the gene already there): a valid genome
\* stays valid.
C7_RandomReset ==
    (pc = "op_returned" /\ mutation = "random_reset") =>
        LET old == heap[parent1].genome
            new == heap[child1].genome
            changed == {k \in Fields : new[k] # old[k]}
        IN  /\ DOMAIN new = Fields
            /\ Cardinality(changed) <= 1
            /\ changed \subseteq {draw[1] + 1}
            /\ new[draw[1] + 1] = draw[2]
            /\ draw[2] \in Crops
            /\ draw[2] = old[draw[1] + 1] => changed = {}
            /\ new \in Genomes

\* a reset that changes exactly one gene
C7_Witness ==
    /\ pc = "op_returned"
    /\ mutation = "random_reset"
    /\ Cardinality({k \in Fields : heap[child1].genome[k] # heap[parent1].genome[k]}) = 1

\* C8: no step of a run changes an existing Individual: a crossover or mutation
\* call, and every other step of evolve_population, leaves every object as it
\* was; where references are rebound (the extend, the return) the objects the
\* lists hold are the ones they held, with the two children appended.
C8_NeverMutatedInPlace ==
    [][IF pc = "extend"
       THEN /\ Deref(heap', population') = Deref(heap, population)
            /\ Deref(heap', new_population') =
                  Deref(heap, new_population \o <<child1, child2>>)
            /\ Deref(heap', best_individuals') = Deref(heap, best_individuals)
       ELSE IF GenerationEnds
       THEN /\ Deref(heap', population') =
                  Deref(heap, SubSeq(new_population, 1, Len(population)))
            /\ Deref(heap', SubSeq(best_individuals', 1, Len(best_individuals))) =
                  Deref(heap, best_individuals)
       ELSE /\ DOMAIN heap \subseteq DOMAIN heap'
            /\ \A r \in DOMAIN heap : heap'[r] = heap[r]]_vars

\* crossover was skipped and a parent that is already a member of the new
\* population was passed to the mutation operator, which returned a changed copy
C8_Witness ==
    /\ pc = "mutate2"
    /\ child1 # parent1
    /\ child2 = parent2
    /\ parent1 \in Range(new_population)
    /\ parent1 \in Range(population)
    /\ heap[child1].genome # heap[parent1].genome

\* C9: select_parents samples 5 distinct positions of the population and returns
\* the members at two different sampled positions, parent1 at least as fit as
\* parent2 and parent2 at least as fit as the other three sampled members; with a
\* population of 5 these are the two fittest of the population.
C9_TournamentSelection ==
    pc = "select_returned" =>
        LET n == Len(population)
            F(i) == heap[population[i]].fitness.num
        IN  /\ Len(draw) = TOURNAMENT_SIZE
            /\ Range(draw) \subseteq 1..n
            /\ Cardinality(Range(draw)) = TOURNAMENT_SIZE
            /\ Len(candidates) = TOURNAMENT_SIZE
            /\ Range(candidates) = Range(draw)
            /\ candidates[1] # candidates[2]
            /\ parent1 = population[candidates[1]]
            /\ parent2 = population[candidates[2]]
            /\ F(candidates[1]) >= F(candidates[2])
            /\ \A k \in 3..TOURNAMENT_SIZE : F(candidates[2]) >= F(candidates[k])
            /\ n = TOURNAMENT_SIZE =>
                  /\ \A i \in 1..n : F(candidates[1]) >= F(i)
                  /\ \A i \in (1..n) \ {candidates[1]} : F(candidates[2]) >= F(i)

\* a population of more than 5 whose fittest member was not sampled
C9_Witness ==
    /\ pc = "select_returned"
    /\ Len(population) > TOURNAMENT_SIZE
    /\ \E i \in (1..Len(population)) \ Range(draw) :
          FloatLt(heap[parent1].fitness, heap[population[i]].fitness)
    /\ FloatLt(heap[parent2].fitness, heap[parent1].fitness)

\* C10: a run on a population of fewer than 5 members fails with the error of the
\* sample at selection, before any generation: nothing is returned or recorded.
C10_SmallPopulationFailsAtSelection ==
    (Len(population) < TOURNAMENT_SIZE /\ pc \in {"crossover", "mutate1", "mutate2",
                                                   "extend", "report", "done", "failed"}) =>
        /\ pc = "failed"
        /\ error = "ValueError: Sample larger than population"
        /\ generation = 0
        /\ best_fitness_over_time = <<>>

\* C11: constructing an Individual from a genome with a gene outside
\* 0..N_CROPS-1 (a negative one included) or of a length other than N_FIELDS
\* (1 and 0 included) fails, and no Individual is produced from it.
C11_InvalidGenomeFails ==
    (pc \in {"new_returned", "new_raised"} /\ draw \notin Genomes) =>
        /\ pc = "new_raised"
        /\ error # "none"
        /\ heap = <<>>

\* C12: with a single field, single-point crossover, two-point crossover, swap
\* mutation and inversion mutation do not fail: each returns its parents (its
\* input) unchanged.
C12_DegenerateFallback ==
    (/\ problem.n_fields = 1
     /\ pc \in {"op_returned", "op_raised"}
     /\ \/ crossover \in {"single_point_crossover", "two_point_crossover"}
        \/ mutation \in {"swap_mutation", "inversion_mutation"}) =>
        /\ pc = "op_returned"
        /\ error = "none"
        /\ heap[child1].genome = heap[parent1].genome
        /\ crossover # "none" => heap[child2].genome = heap[parent2].genome

\* C13: under scenario B a run ends with the reported best fitness 1.0, that is,
\* the final population contains the genome [0, 1].
C13_ScenarioBConverges ==
    pc = "done" =>
        /\ ~heap[best].fitness.nan
        /\ heap[best].fitness.num = 10 * MAX_YIELD * MAX_COST
        /\ \E i \in 1..Len(population) : heap[population[i]].genome = <<0, 1>>

\* C16: two_point_crossover draws two distinct cut points p1 < p2 in
\* 1..N_FIELDS-1, so the exchanged segment p1..p2-1 is never empty.
C16_DistinctCutPoints ==
    (pc = "op_returned" /\ crossover = "two_point_crossover") =>
        LET p1 == Min2(draw[1], draw[2])
            p2 == Max2(draw[1], draw[2])
        IN  /\ draw[1] # draw[2]
            /\ 1 <= p1 /\ p1 < p2 /\ p2 <= problem.n_fields - 1
            /\ {k \in 0..(problem.n_fields - 1) : p1 <= k /\ k < p2} # {}

\* C17: the best individual of a generation is not kept by any rule of its own:
\* a run in which the best fitness of one generation is lower than that of the
\* generation before is reachable (C17_Witness).  The best survives only through
\* selection: when the tournament covers the whole population (5 members) and
\* fewer operators were applied than there are pairs, every pair's first parent
\* is a fittest member and one of them is appended unchanged, so the trace
\* never decreases.
C17_BestKeptOnlyBySelection ==
    (Len(population) = TOURNAMENT_SIZE /\ 2 * applied < TOURNAMENT_SIZE) =>
        \A g \in 1..(Len(best_fitness_over_time) - 1) :
            ~FloatLt(best_fitness_over_time[g + 1], best_fitness_over_time[g])

\* a run in which no operator was applied and the best fitness of the second
\* generation is lower than that of the first
C17_Witness ==
    /\ applied = 0
    /\ \E g \in 1..(Len(best_fitness_over_time) - 1) :
          FloatLt(best_fitness_over_time[g + 1], best_fitness_over_time[g])

\* the members of the population with fewer than 3 members of lower fitness
LeastFit3 ==
    {population[i] : i \in {k \in 1..Len(population) :
        Cardinality({j \in 1..Len(population) :
            FloatLt(heap[population[j]].fitness, heap[population[k]].fitness)}) < 3}}

\* the fitness values of the population's slots are pairwise distinct
DistinctFitness ==
    \A i, j \in 1..Len(population) :
        i # j => heap[population[i]].fitness # heap[population[j]].fitness

\* C18: parent1 has fitness >= that of at least 4 other slots of the population
\* and parent2 >= that of at least 3 other slots; with pairwise distinct fitness
\* values the 3 least fit members are never selected; when crossover and both
\* mutations are skipped the two individuals appended are the selected parents,
\* so the 3 least fit members are never carried into the new population.
C18_SelectionPressure ==
    LET n == Len(population)
        F(i) == heap[population[i]].fitness
        NotAbove(a) == {i \in (1..n) \ {a} : ~FloatLt(F(a), F(i))}
    IN  /\ pc \in {"crossover", "mutate1", "mutate2", "extend"} =>
              /\ \E a, b \in 1..n :
                    /\ a # b
                    /\ population[a] = parent1 /\ population[b] = parent2
                    /\ Cardinality(NotAbove(a)) >= 4
                    /\ Cardinality(NotAbove(b)) >= 3
              /\ DistinctFitness => parent1 \notin LeastFit3 /\ parent2 \notin LeastFit3
        /\ (pc = "extend" /\ applied = 0) => child1 = parent1 /\ child2 = parent2
        /\ pc = "extend" =>
              /\ child1 \in Range(population) => child1 = parent1
              /\ child2 \in Range(population) => child2 = parent2
        /\ DistinctFitness => Range(new_population) \cap LeastFit3 = {}

\* in a population of 6 with pairwise distinct fitness, a pair whose first parent
\* is not the fittest member is about to be appended unchanged
C18_Witness ==
    /\ pc = "extend"
    /\ applied = 0
    /\ DistinctFitness
    /\ Len(population) > TOURNAMENT_SIZE
    /\ child1 = parent1 /\ child2 = parent2
    /\ \E i \in 1..Len(population) :
          FloatLt(heap[parent1].fitness, heap[population[i]].fitness)
    /\ new_population # <<>>

====
